---- MODULE Spec2Model ----
(***************************************************************************)
(* Maxy Auto-FAQ bot (src/maxy_auto_faq.py): the FAQ store, the            *)
(* configuration, their two persisted JSON documents, the match resolver   *)
(* and the slash / prefix command handlers, as one state machine.          *)
(*                                                                         *)
(* A Python str is a sequence of one-character strings.  A similarity      *)
(* score and a threshold are exact rationals <<numerator, denominator>>;   *)
(* the thresholds used are multiples of 1/100.                             *)
(***************************************************************************)
EXTENDS Integers, Sequences, FiniteSets, TLC

(***************************************************************************)
(* Bounds of the model                                                     *)
(***************************************************************************)
\* largest number of FAQ entries the store is let grow to
MaxFaqs == 2

\* answer texts
Answers == { <<"x">>, <<"y">> }

\* channel ids
Channels == {1, 2}

(***************************************************************************)
(* normalize_text                                                          *)
(***************************************************************************)
IsSpace(c) == c = " "

lower(c) == IF c = "A" THEN "a" ELSE c

\* str.lower()
Lower(s) == [i \in 1..Len(s) |-> lower(s[i])]

\* str.strip(): leading and trailing whitespace removed
RECURSIVE lstrip(_)
lstrip(s) == IF s # <<>> /\ IsSpace(Head(s)) THEN lstrip(Tail(s)) ELSE s

RECURSIVE rstrip(_)
rstrip(s) ==
    IF s # <<>> /\ IsSpace(s[Len(s)]) THEN rstrip(SubSeq(s, 1, Len(s) - 1)) ELSE s

strip(s) == rstrip(lstrip(s))

\* the first word of a text that starts with a non-space character
RECURSIVE FirstWord(_)
FirstWord(s) ==
    IF s = <<>> \/ IsSpace(Head(s)) THEN <<>> ELSE <<Head(s)>> \o FirstWord(Tail(s))

\* str.split(): the maximal runs of non-whitespace characters, in order
RECURSIVE split(_)
split(s) ==
    CHOOSE words \in
        { IF t = <<>> THEN <<>>
          ELSE CHOOSE ws \in { <<w>> \o split(SubSeq(t, Len(w) + 1, Len(t))) :
                                   w \in {FirstWord(t)} } : TRUE :
              t \in {lstrip(s)} } : TRUE

\* " ".join(words)
RECURSIVE join(_)
join(words) ==
    IF words = <<>> THEN <<>>
    ELSE IF Len(words) = 1 THEN words[1]
    ELSE words[1] \o <<" ">> \o join(Tail(words))

normalize_text(s) ==
    CHOOSE r \in { join(words) :
                      words \in { split(t) : t \in { strip(l) : l \in {Lower(s)} } } } : TRUE

(***************************************************************************)
(* difflib.SequenceMatcher(None, a, b).ratio(), for texts shorter than the *)
(* 200 characters at which the autojunk heuristic starts                   *)
(***************************************************************************)
\* length of the common run of a[i..ahi] and b[j..bhi] that starts at i, j
RECURSIVE RunLen(_, _, _, _, _, _)
RunLen(a, b, i, j, ahi, bhi) ==
    IF i > ahi \/ j > bhi \/ a[i] # b[j] THEN 0
    ELSE 1 + RunLen(a, b, i + 1, j + 1, ahi, bhi)

\* find_longest_match: the longest matching block of a[alo..ahi] and
\* b[blo..bhi]; of the longest, the one that starts earliest in a, and of
\* those the one that starts earliest in b.  <<i, j, k>>, k = 0 for none.
find_longest_match(a, b, alo, ahi, blo, bhi) ==
    LET Pos == (alo..ahi) \X (blo..bhi)
        K(p) == RunLen(a, b, p[1], p[2], ahi, bhi)
    IN  IF Pos = {} THEN <<alo, blo, 0>>
        ELSE LET best == CHOOSE p \in Pos :
                            \A q \in Pos :
                                \/ K(p) > K(q)
                                \/ K(p) = K(q) /\ p[1] < q[1]
                                \/ K(p) = K(q) /\ p[1] = q[1] /\ p[2] <= q[2]
             IN  <<best[1], best[2], K(best)>>

\* get_matching_blocks: total size of the blocks found by matching the
\* longest block, then the parts left of it, then the parts right of it
RECURSIVE MatchedSize(_, _, _, _, _, _)
MatchedSize(a, b, alo, ahi, blo, bhi) ==
    CHOOSE size \in
        { IF m[3] = 0 THEN 0
          ELSE m[3] + MatchedSize(a, b, alo, m[1] - 1, blo, m[2] - 1)
                    + MatchedSize(a, b, m[1] + m[3], ahi, m[2] + m[3], bhi) :
              m \in {find_longest_match(a, b, alo, ahi, blo, bhi)} } : TRUE

\* ratio(): 2.0 * matches / length, and 1.0 when both texts are empty
ratio(a, b) ==
    CHOOSE r \in
        { IF Len(x) + Len(y) = 0 THEN <<1, 1>>
          ELSE <<2 * MatchedSize(x, y, 1, Len(x), 1, Len(y)), Len(x) + Len(y)>> :
              x \in {a}, y \in {b} } : TRUE

\* comparisons of rationals with positive denominators
Gt(x, y) == x[1] * y[2] > y[1] * x[2]
Ge(x, y) == x[1] * y[2] >= y[1] * x[2]
Eq(x, y) == x[1] * y[2] = y[1] * x[2]

(***************************************************************************)
(* Python values                                                           *)
(***************************************************************************)
\* None is <<>>, a value v is <<v>>
None == <<>>
Some(v) == <<v>>

\* truth value of an optional str: None and the empty str are false
Truthy(opt) == opt # None /\ opt[1] # <<>>

\* a dict with str keys is the sequence of its items in insertion order
Keys(d) == [i \in 1..Len(d) |-> d[i].q]
Has(d, k) == \E i \in 1..Len(d) : d[i].q = k
IndexOf(d, k) == CHOOSE i \in 1..Len(d) : d[i].q = k
Get(d, k) == d[IndexOf(d, k)].a

\* d[k] = v: a present key keeps its place and takes the new value, a new
\* key goes last
Put(d, k, v) ==
    IF Has(d, k) THEN [d EXCEPT ![IndexOf(d, k)].a = v]
    ELSE Append(d, [q |-> k, a |-> v])

\* del d[k]
Del(d, k) ==
    LET n == IndexOf(d, k)
    IN  SubSeq(d, 1, n - 1) \o SubSeq(d, n + 1, Len(d))

\* a membership test that never finds the element
InListNever(l, x) == FALSE

\* x in list, list.remove(x) (the first occurrence)
InList(l, x) == \E i \in 1..Len(l) : l[i] = x
ListRemove(l, x) ==
    LET n == CHOOSE i \in 1..Len(l) : l[i] = x /\ \A j \in 1..(i - 1) : l[j] # x
    IN  SubSeq(l, 1, n - 1) \o SubSeq(l, n + 1, Len(l))

(***************************************************************************)
(* Program constants                                                       *)
(***************************************************************************)
\* DEFAULT_SIMILARITY_THRESHOLD = 0.60, in hundredths
DEFAULT_SIMILARITY_THRESHOLD == 60

\* the four FALLBACK_MESSAGES, by position
FALLBACK_MESSAGES == 1..4

\* the default passed to load_json for faqs.json and for config.json
DefaultFaqs == <<>>
DefaultConfig ==
    [has_channels |-> TRUE, faq_channels |-> <<>>,
     has_threshold |-> TRUE, threshold |-> DEFAULT_SIMILARITY_THRESHOLD]

(***************************************************************************)
(* State                                                                   *)
(***************************************************************************)
VARIABLES
    faqs,       \* the dict faqs: question -> answer
    config,     \* the dict config: "faq_channels", "threshold"
    faqFile,    \* faqs.json
    cfgFile,    \* config.json
    faqBak,     \* faqs.json.bak
    cfgBak,     \* config.json.bak
    last        \* the handler that ran last: its inputs and what it sent

vars == <<faqs, config, faqFile, cfgFile, faqBak, cfgBak, last>>

\* a file: absent, a JSON document (data), or bytes that do not parse (junk
\* names the bytes)
Absent(dflt) == [kind |-> "absent", data |-> dflt, junk |-> 0]
Json(d) == [kind |-> "json", data |-> d, junk |-> 0]
Corrupt(dflt, n) == [kind |-> "corrupt", data |-> dflt, junk |-> n]

(***************************************************************************)
(* load_json, save_json                                                    *)
(***************************************************************************)
\* load_json(path, default): the value returned, and the file and its .bak
\* afterwards.  rn is the outcome of os.rename: "renamed" or "failed" (the
\* exception is swallowed).
load_json(file, bak, dflt, rn) ==
    IF file.kind = "json" THEN [value |-> file.data, file |-> file, bak |-> bak]
    ELSE IF file.kind = "absent" THEN [value |-> dflt, file |-> file, bak |-> bak]
    ELSE IF rn = "renamed"
         THEN [value |-> dflt, file |-> Absent(dflt), bak |-> file]
         ELSE [value |-> dflt, file |-> file, bak |-> bak]

\* a save_json that leaves the file as it was
save_json_skipped(file, data, dflt, io) == file

\* save_json(path, data): the file afterwards.  io is the outcome of the
\* write: "ok"; "open_failed" (open raises, the file is as before);
\* "write_failed" (the file was truncated by open and the dump raised).
save_json(file, data, dflt, io) ==
    IF io = "ok" THEN Json(data)
    ELSE IF io = "open_failed" THEN file
    ELSE Corrupt(dflt, 2)

(***************************************************************************)
(* best_faq_match                                                          *)
(***************************************************************************)
\* config.get("threshold", DEFAULT_SIMILARITY_THRESHOLD), in hundredths
Threshold(cfg) ==
    IF cfg.has_threshold THEN cfg.threshold ELSE DEFAULT_SIMILARITY_THRESHOLD

\* config.get("faq_channels", [])
CfgChannels(cfg) == IF cfg.has_channels THEN cfg.faq_channels ELSE <<>>

\* a comparison that lets a later key of equal score replace the best
BetterOrEqual(score, best_score) == Ge(score, best_score)

\* the comparison of the scan: a later score replaces the best only when
\* strictly greater
Better(score, best_score) == Gt(score, best_score)

\* the scan of the keys from position i on, with the best so far
RECURSIVE Scan(_, _, _, _, _)
Scan(d, msg_norm, i, best_key, best_score) ==
    IF i > Len(d) THEN [key |-> best_key, score |-> best_score]
    ELSE CHOOSE r \in
             { IF Better(score, best_score)
               THEN Scan(d, msg_norm, i + 1, Some(d[i].q), score)
               ELSE Scan(d, msg_norm, i + 1, best_key, best_score) :
                   score \in {ratio(msg_norm, normalize_text(d[i].q))} } : TRUE

\* the final test of best_faq_match
Accepts(best_key, best_score, threshold) ==
    Ge(best_score, <<threshold, 100>>) /\ best_key # None

\* best_faq_match(message): (best_key, answer, score) or (None, None, score)
best_faq_match(d, cfg, message) ==
    CHOOSE result \in
        { IF Accepts(r.key, r.score, Threshold(cfg))
          THEN [key |-> r.key, answer |-> Some(Get(d, r.key[1])), score |-> r.score]
          ELSE [key |-> None, answer |-> None, score |-> r.score] :
              r \in { Scan(d, msg_norm, 1, None, <<0, 1>>) :
                          msg_norm \in {normalize_text(message)} } } : TRUE

(***************************************************************************)
(* What a handler leaves behind in last                                    *)
(***************************************************************************)
\* event: "interaction" (a slash command) or "message" (on_message)
\* op: the command, or "text" for a message that is no command
\* resp: what was sent; "CheckFailure", "MissingArgument" and "Exception"
\*   send nothing; key: the key named in the text sent; sent: the answer sent
\* called: best_faq_match was called, and returned (mkey, manswer, score)
\* dispatched: bot.process_commands was called; auto: an auto-reply was sent
\* via: how the auto-reply went out, "reply" (message.reply) or "channel"
\*   (message.channel.send, after discord.Forbidden)
\* shown: the score as formatted into the text sent, in hundredths
Blank ==
    [event |-> "none", op |-> "none", form |-> "none", priv |-> FALSE,
     src |-> "none", q |-> <<>>, a |-> <<>>, ch |-> 0, v |-> 0,
     resp |-> "none", key |-> None, sent |-> None,
     called |-> FALSE, mkey |-> None, manswer |-> None, score |-> <<0, 1>>,
     dispatched |-> FALSE, auto |-> FALSE, fallback |-> 0,
     via |-> "none", shown |-> None]

SlashEv(op, priv) ==
    [Blank EXCEPT !.event = "interaction", !.form = "slash", !.op = op, !.priv = priv]

\* the handler returns after sending r, with nothing written
Reject(ev, r) ==
    /\ last' = [ev EXCEPT !.resp = r]
    /\ UNCHANGED <<faqs, config, faqFile, cfgFile, faqBak, cfgBak>>

\* faqs becomes new, save_json(FAQ_FILE, faqs) runs, then r is sent
StoreFaqs(ev, new, io, r, key) ==
    /\ faqs' = new
    /\ faqFile' = save_json(faqFile, new, DefaultFaqs, io)
    /\ last' = [ev EXCEPT !.resp = IF io = "ok" THEN r ELSE "Exception", !.key = key]
    /\ UNCHANGED <<config, cfgFile, faqBak, cfgBak>>

\* config becomes new, save_json(CONFIG_FILE, config) runs, then r is sent
StoreConfig(ev, new, io, r) ==
    /\ config' = new
    /\ cfgFile' = save_json(cfgFile, new, DefaultConfig, io)
    /\ last' = [ev EXCEPT !.resp = IF io = "ok" THEN r ELSE "Exception"]
    /\ UNCHANGED <<faqs, faqFile, faqBak, cfgBak>>

(***************************************************************************)
(* FAQ commands                                                            *)
(***************************************************************************)
\* the key the slash faq_add looks up before it writes
AddLookupKey(question) == normalize_text(question)

\* the loop of faq_remove: the first key, in dict order, whose normalized
\* form is that of the question; None when there is none
FindNormalized(d, question) ==
    LET hits == {i \in 1..Len(d) : normalize_text(d[i].q) = normalize_text(question)}
    IN  IF hits = {} THEN None
        ELSE Some(d[CHOOSE i \in hits : \A j \in hits : i <= j].q)

\* /faq_add
faq_add(priv, question, answer, io) ==
    LET ev == [SlashEv("faq_add", priv) EXCEPT !.q = question, !.a = answer]
    IN  IF ~priv THEN Reject(ev, "NoPermission")
        ELSE IF Has(faqs, AddLookupKey(question)) THEN Reject(ev, "AlreadyExists")
        ELSE StoreFaqs(ev, Put(faqs, question, answer), io, "Added", None)

\* the body shared by /faq_remove and !faq_remove, after the permission check
RemoveBody(ev, question, io) ==
    IF Has(faqs, question)
    THEN StoreFaqs(ev, Del(faqs, question), io, "Removed", Some(question))
    ELSE LET found == FindNormalized(faqs, question)
         IN  IF Truthy(found)
             THEN StoreFaqs(ev, Del(faqs, found[1]), io, "Removed", found)
             ELSE Reject(ev, "NotFound")

\* /faq_remove
faq_remove(priv, question, io) ==
    LET ev == [SlashEv("faq_remove", priv) EXCEPT !.q = question]
    IN  IF ~priv THEN Reject(ev, "NoPermission")
        ELSE RemoveBody(ev, question, io)

\* f"{score:.2f}": the score rounded to hundredths, a tie going to the even
\* digit (a tie is a multiple of 1/8, which a float holds exactly)
Format2(score) ==
    LET n == 100 * score[1]
        d == score[2]
        whole == n \div d
        twice == 2 * (n % d)
    IN  IF twice > d THEN whole + 1
        ELSE IF twice < d THEN whole
        ELSE IF whole % 2 = 0 THEN whole ELSE whole + 1

\* a view that keeps the answer of the closest match under the question asked
ViewBodyCaching(ev, question) ==
    IF Has(faqs, question)
    THEN Reject([ev EXCEPT !.sent = Some(Get(faqs, question))], "Answer")
    ELSE \E m \in {best_faq_match(faqs, config, question)} :
             IF Truthy(m.key)
             THEN StoreFaqs([ev EXCEPT !.sent = m.answer], Put(faqs, question, m.answer[1]),
                            "ok", "Closest", m.key)
             ELSE Reject(ev, "NoMatch")

\* the body shared by /faq_view and !faq_view
ViewBody(ev, question) ==
    IF Has(faqs, question)
    THEN Reject([ev EXCEPT !.sent = Some(Get(faqs, question))], "Answer")
    ELSE \E m \in {best_faq_match(faqs, config, question)} :
             LET on == [ev EXCEPT !.called = TRUE, !.mkey = m.key, !.manswer = m.answer,
                                  !.score = m.score]
             IN  IF Truthy(m.key)
                 THEN Reject([on EXCEPT !.key = m.key, !.sent = m.answer,
                                        !.shown = Some(Format2(m.score))], "Closest")
                 ELSE Reject(on, "NoMatch")

\* the body shared by /faq_list and !faq_list (the listing of the model's
\* stores is shorter than 1900 characters)
ListBody(ev) ==
    IF faqs = <<>> THEN Reject(ev, "Empty") ELSE Reject(ev, "List")

\* /faq_view
faq_view(priv, question) ==
    ViewBody([SlashEv("faq_view", priv) EXCEPT !.q = question], question)

\* /faq_list
faq_list(priv) == ListBody(SlashEv("faq_list", priv))

\* !faq_add question answer
prefix_faq_add(ev, question, answer, io) ==
    IF ~ev.priv THEN Reject(ev, "CheckFailure")
    ELSE IF Has(faqs, question) THEN Reject(ev, "AlreadyExists")
    ELSE StoreFaqs(ev, Put(faqs, question, answer), io, "Added", None)

\* !faq_remove question: the rest of the line, stripped, is the question
prefix_faq_remove(ev, rest, io) ==
    IF ~ev.priv THEN Reject(ev, "CheckFailure")
    ELSE IF strip(rest) = <<>> THEN Reject(ev, "MissingArgument")
    ELSE RemoveBody(ev, strip(rest), io)

\* !faq_view question
prefix_faq_view(ev, rest) ==
    IF strip(rest) = <<>> THEN Reject(ev, "MissingArgument")
    ELSE ViewBody(ev, strip(rest))

\* !faq_list
prefix_faq_list(ev) == ListBody(ev)

(***************************************************************************)
(* Configuration commands                                                  *)
(***************************************************************************)
\* /set_faq_channel
set_faq_channel(priv, channel, io) ==
    LET ev == [SlashEv("set_faq_channel", priv) EXCEPT !.ch = channel]
        cfg_channels == CfgChannels(config)
    IN  IF ~priv THEN Reject(ev, "NoPermission")
        ELSE IF InList(cfg_channels, channel) THEN Reject(ev, "AlreadyConfigured")
        ELSE StoreConfig(ev,
                 [config EXCEPT !.has_channels = TRUE,
                                !.faq_channels = Append(cfg_channels, channel)],
                 io, "ChannelAdded")

\* /disable_faq_channel
disable_faq_channel(priv, channel, io) ==
    LET ev == [SlashEv("disable_faq_channel", priv) EXCEPT !.ch = channel]
        cfg_channels == CfgChannels(config)
    IN  IF ~priv THEN Reject(ev, "NoPermission")
        ELSE IF ~InList(cfg_channels, channel) THEN Reject(ev, "NotConfigured")
        ELSE StoreConfig(ev,
                 [config EXCEPT !.has_channels = TRUE,
                                !.faq_channels = ListRemove(cfg_channels, channel)],
                 io, "ChannelRemoved")

\* a range test that leaves the two bounds out
InRangeExclusive(value) == 0 < value /\ value < 100

\* the range test of set_threshold, value in hundredths
InRange(value) == 0 <= value /\ value <= 100

\* /set_threshold
set_threshold(priv, value, io) ==
    LET ev == [SlashEv("set_threshold", priv) EXCEPT !.v = value]
    IN  IF ~priv THEN Reject(ev, "NoPermission")
        ELSE IF ~InRange(value) THEN Reject(ev, "ValidationError")
        ELSE StoreConfig(ev,
                 [config EXCEPT !.has_threshold = TRUE, !.threshold = value],
                 io, "ThresholdSet")

(***************************************************************************)
(* on_message                                                              *)
(***************************************************************************)
\* An incoming message m: src is "bot" (author.bot), "dm" (guild is None)
\* or "guild"; ch its channel; priv whether its author is the owner or an
\* administrator; cmd "text" or the prefix command its content invokes,
\* with the arguments q and a.
CmdName(cmd) ==
    CASE cmd = "faq_add" -> <<"f", "a", "q", "_", "a", "d", "d">>
      [] cmd = "faq_remove" -> <<"f", "a", "q", "_", "r", "e", "m", "o", "v", "e">>
      [] cmd = "faq_view" -> <<"f", "a", "q", "_", "v", "i", "e", "w">>
      [] OTHER -> <<"f", "a", "q", "_", "l", "i", "s", "t">>

\* a single argument as typed: quoted when empty or holding whitespace
Word(q) ==
    IF q = <<>> \/ \E i \in 1..Len(q) : IsSpace(q[i])
    THEN <<"\"">> \o q \o <<"\"">>
    ELSE q

\* message.content
Content(m) ==
    CASE m.cmd = "text" -> m.q
      [] m.cmd = "faq_add" ->
            <<"!">> \o CmdName(m.cmd) \o <<" ">> \o Word(m.q) \o <<" ">> \o m.a
      [] m.cmd = "faq_list" -> <<"!">> \o CmdName(m.cmd)
      [] OTHER -> <<"!">> \o CmdName(m.cmd) \o <<" ">> \o m.q

MsgEv(m) ==
    [Blank EXCEPT !.event = "message", !.src = m.src, !.op = m.cmd,
                  !.form = IF m.cmd = "text" THEN "none" ELSE "prefix",
                  !.priv = m.priv, !.q = m.q, !.a = m.a, !.ch = m.ch]

\* bot.process_commands(message): the prefix command of the message runs
process_commands(ev, m, io) ==
    CASE m.cmd = "faq_add" -> prefix_faq_add(ev, m.q, m.a, io)
      [] m.cmd = "faq_remove" -> prefix_faq_remove(ev, m.q, io)
      [] m.cmd = "faq_view" -> prefix_faq_view(ev, m.q)
      [] m.cmd = "faq_list" -> prefix_faq_list(ev)
      [] OTHER -> Reject(ev, "none")

\* the test of on_message that guards the auto-reply
IsAutoReplyChannel(cfg, ch) ==
    CfgChannels(cfg) # <<>> /\ InList(CfgChannels(cfg), ch)

\* message.reply succeeds, or raises discord.Forbidden and the text goes out
\* with message.channel.send
ReplyOutcomes == {"replied", "forbidden"}

Via(rp) == IF rp = "replied" THEN "reply" ELSE "channel"

\* on_message(message); the fallback is the outcome of random.choice
on_message(m, io) ==
    LET ev == MsgEv(m)
    IN  IF m.src = "bot" THEN Reject(ev, "none")
        ELSE IF m.src = "dm" THEN Reject(ev, "none")
        ELSE IF ~IsAutoReplyChannel(config, m.ch)
             THEN process_commands([ev EXCEPT !.dispatched = TRUE], m, io)
        ELSE \E r \in {best_faq_match(faqs, config, Content(m))} :
                 LET on == [ev EXCEPT !.auto = TRUE, !.called = TRUE, !.mkey = r.key,
                                      !.manswer = r.answer, !.score = r.score]
                 IN  \E rp \in ReplyOutcomes :
                         IF Truthy(r.key)
                         THEN Reject([on EXCEPT !.key = r.key, !.sent = r.answer,
                                                !.via = Via(rp)], "Answer")
                         ELSE \E fb \in FALLBACK_MESSAGES :
                                  Reject([on EXCEPT !.fallback = fb, !.via = Via(rp)],
                                         "Fallback")

(***************************************************************************)
(* Module initialisation (lines 69-71) and restart                         *)
(***************************************************************************)
RenameOutcomes == {"renamed", "failed"}

\* the state after faqs and config were loaded from the files fd and cd
Loaded(fd, fb, cd, cb, rn1, rn2, op) ==
    LET lf == load_json(fd, fb, DefaultFaqs, rn1)
        lc == load_json(cd, cb, DefaultConfig, rn2)
    IN  /\ faqs = lf.value
        /\ faqFile = lf.file
        /\ faqBak = lf.bak
        /\ config = lc.value
        /\ cfgFile = lc.file
        /\ cfgBak = lc.bak
        /\ last = [Blank EXCEPT !.op = op]

\* the process starts again on the files as they are
Restart ==
    \E rn1, rn2 \in RenameOutcomes :
        LET lf == load_json(faqFile, faqBak, DefaultFaqs, rn1)
            lc == load_json(cfgFile, cfgBak, DefaultConfig, rn2)
        IN  /\ faqs' = lf.value
            /\ faqFile' = lf.file
            /\ faqBak' = lf.bak
            /\ config' = lc.value
            /\ cfgFile' = lc.file
            /\ cfgBak' = lc.bak
            /\ last' = [Blank EXCEPT !.op = "restart"]

(***************************************************************************)
(* Inputs                                                                  *)
(***************************************************************************)
\* the stores with distinct keys from T and exactly n entries
RECURSIVE StoresOfLen(_, _)
StoresOfLen(T, n) ==
    IF n = 0 THEN {<<>>}
    ELSE UNION { { Append(d, [q |-> k, a |-> v]) :
                       k \in {t \in T : ~Has(d, t)}, v \in Answers } :
                 d \in StoresOfLen(T, n - 1) }

\* the stores a faqs.json may hold
Stores(T) == UNION { StoresOfLen(T, n) : n \in 0..MaxFaqs }

\* the thresholds a config.json may hold and those typed into /set_threshold,
\* in hundredths
LoadedThresholds == {60, 150}
ThresholdInputs == {-10, 0, 60, 100, 150}

\* the configurations a config.json may hold
LoadableConfigs ==
    { [has_channels |-> TRUE, faq_channels |-> l, has_threshold |-> TRUE, threshold |-> t] :
          l \in {<<>>, <<1>>}, t \in LoadedThresholds }

\* a config.json that holds {}: both keys are missing
EmptyConfig ==
    [has_channels |-> FALSE, faq_channels |-> <<>>, has_threshold |-> FALSE, threshold |-> 0]

\* the documents found at startup: none, or one that parses
FaqDocs(T) == {Absent(DefaultFaqs)} \cup {Json(d) : d \in Stores(T)}

CfgDocs == {Absent(DefaultConfig)} \cup {Json(c) : c \in LoadableConfigs}

\* the messages with texts from T
Messages(T) ==
    { [src |-> s, ch |-> 1, priv |-> FALSE, cmd |-> "text", q |-> <<"a">>, a |-> <<>>] :
          s \in {"bot", "dm"} }
    \cup { [src |-> "guild", ch |-> c, priv |-> p, cmd |-> "text", q |-> t, a |-> <<>>] :
               c \in Channels, p \in BOOLEAN, t \in T }
    \cup { [src |-> "guild", ch |-> c, priv |-> p, cmd |-> "faq_add", q |-> t, a |-> v] :
               c \in Channels, p \in BOOLEAN, t \in T, v \in Answers }
    \cup { [src |-> "guild", ch |-> c, priv |-> p, cmd |-> k, q |-> t, a |-> <<>>] :
               c \in Channels, p \in BOOLEAN, t \in T, k \in {"faq_remove", "faq_view"} }
    \cup { [src |-> "guild", ch |-> c, priv |-> p, cmd |-> "faq_list", q |-> <<>>, a |-> <<>>] :
               c \in Channels, p \in BOOLEAN }

(***************************************************************************)
(* The bot: every handler, every save succeeding.  discord.py runs the     *)
(* handlers of one event loop; last holds the event in hand and what its   *)
(* handler sent, and Return hands control back to the loop, which then     *)
(* takes the next event.                                                   *)
(***************************************************************************)
CmdTexts == { <<>>, <<" ">>, <<"a">>, <<"A">> }

Idle == last.op = "none"

Init ==
    \E fd \in FaqDocs(CmdTexts), cd \in CfgDocs, rn1, rn2 \in RenameOutcomes :
        Loaded(fd, Absent(DefaultFaqs), cd, Absent(DefaultConfig), rn1, rn2, "none")

SlashFaqAdd ==
    /\ Idle
    /\ \E priv \in BOOLEAN, q \in CmdTexts, a \in Answers : faq_add(priv, q, a, "ok")
    /\ Len(faqs') <= MaxFaqs

SlashFaqRemove ==
    /\ Idle
    /\ \E priv \in BOOLEAN, q \in CmdTexts : faq_remove(priv, q, "ok")

SlashFaqView ==
    /\ Idle
    /\ \E priv \in BOOLEAN, q \in CmdTexts : faq_view(priv, q)

SlashFaqList ==
    /\ Idle
    /\ \E priv \in BOOLEAN : faq_list(priv)

SetFaqChannel ==
    /\ Idle
    /\ \E priv \in BOOLEAN, c \in Channels : set_faq_channel(priv, c, "ok")

DisableFaqChannel ==
    /\ Idle
    /\ \E priv \in BOOLEAN, c \in Channels : disable_faq_channel(priv, c, "ok")

SetThreshold ==
    /\ Idle
    /\ \E priv \in BOOLEAN, v \in ThresholdInputs : set_threshold(priv, v, "ok")

OnMessage ==
    /\ Idle
    /\ \E m \in Messages(CmdTexts) : on_message(m, "ok")
    /\ Len(faqs') <= MaxFaqs

RestartBot == Idle /\ Restart

Return ==
    /\ ~Idle
    /\ last' = Blank
    /\ UNCHANGED <<faqs, config, faqFile, cfgFile, faqBak, cfgBak>>

Next ==
    \/ SlashFaqAdd
    \/ SlashFaqRemove
    \/ SlashFaqView
    \/ SlashFaqList
    \/ SetFaqChannel
    \/ DisableFaqChannel
    \/ SetThreshold
    \/ OnMessage
    \/ RestartBot
    \/ Return

Spec == Init /\ [][Next]_vars

(***************************************************************************)
(* The read-only handlers on loaded stores: faq_view, faq_list and the     *)
(* auto-reply of on_message, with the resolver they call                   *)
(***************************************************************************)
ReadTexts == { <<>>, <<"a">>, <<"A">>, <<"a", "b">> }

ReadThresholds == {0, 60, 100}

ReadConfigs ==
    { [has_channels |-> TRUE, faq_channels |-> <<1>>,
       has_threshold |-> TRUE, threshold |-> t] : t \in ReadThresholds }
    \cup {EmptyConfig}

InitRead ==
    \E d \in Stores(ReadTexts), c \in ReadConfigs :
        Loaded(Json(d), Absent(DefaultFaqs), Json(c), Absent(DefaultConfig),
               "failed", "failed", "none")

ReadView ==
    /\ Idle
    /\ \E priv \in BOOLEAN, q \in ReadTexts : faq_view(priv, q)

ReadList ==
    /\ Idle
    /\ \E priv \in BOOLEAN : faq_list(priv)

ReadMessage ==
    /\ Idle
    /\ \E m \in {x \in Messages(ReadTexts) : x.cmd \in {"text", "faq_view", "faq_list"}} :
           on_message(m, "ok")

NextRead ==
    \/ ReadView
    \/ ReadList
    \/ ReadMessage
    \/ Return

SpecRead == InitRead /\ [][NextRead]_vars

(***************************************************************************)
(* Properties                                                              *)
(***************************************************************************)
\* the handler of the command in last' ran: a slash command, or a prefix
\* command that on_message handed to bot.process_commands
Invoked(l) == l.event = "interaction" \/ (l.event = "message" /\ l.dispatched)

\* the question a remove or view handler was given
Question(l) == IF l.form = "prefix" THEN strip(l.q) ELSE l.q

\* C1: an add by a privileged caller of a question that is already a key
\* (exact equality) is rejected with AlreadyExists and leaves the store and
\* the stored answer as they were, whatever the case and whitespace of the key.
C1_AddOfExistingKeyRejected ==
    [][ (last'.op = "faq_add" /\ Invoked(last') /\ last'.priv /\ Has(faqs, last'.q))
            => (last'.resp = "AlreadyExists" /\ faqs' = faqs) ]_vars

\* C2: an add by a privileged caller of a question that is not a key (exact
\* equality) succeeds, also when a key with the same normalized form is
\* present, and the question then maps to the answer given.
C2_AddOfNewKeySucceeds ==
    [][ (last'.op = "faq_add" /\ Invoked(last') /\ last'.priv /\ ~Has(faqs, last'.q))
            => (/\ last'.resp = "Added"
                /\ Has(faqs', last'.q)
                /\ Get(faqs', last'.q) = last'.a) ]_vars

\* the positions of the keys of d with the normalized form of q, and d
\* without its n-th item
C3_NormalizedHits(d, q) ==
    {i \in 1..Len(d) : normalize_text(d[i].q) = normalize_text(q)}

C3_Without(d, n) == SubSeq(d, 1, n - 1) \o SubSeq(d, n + 1, Len(d))

\* C3: a remove by a privileged caller removes the exact key if there is
\* one, else the first key in insertion order with the question's normalized
\* form, and reports the key removed; with neither it answers NotFound and
\* the store and faqs.json stay as they were.  Nothing else is removed.
C3_RemoveTakesExactThenFirstNormalized ==
    [][ (/\ last'.op = "faq_remove" /\ Invoked(last') /\ last'.priv
         /\ last'.resp # "MissingArgument")
            => LET q == Question(last')
                   hits == C3_NormalizedHits(faqs, q)
               IN  IF Has(faqs, q)
                   THEN /\ last'.resp = "Removed" /\ last'.key = Some(q)
                        /\ faqs' = C3_Without(faqs, CHOOSE i \in 1..Len(faqs) : faqs[i].q = q)
                   ELSE IF hits # {}
                   THEN LET n == CHOOSE i \in hits : \A j \in hits : i <= j
                        IN  /\ last'.resp = "Removed" /\ last'.key = Some(faqs[n].q)
                            /\ faqs' = C3_Without(faqs, n)
                   ELSE /\ last'.resp = "NotFound"
                        /\ faqs' = faqs /\ faqFile' = faqFile ]_vars

\* the scores of the keys of d against a message, and the largest of them
ScoreOf(d, i, message) == ratio(normalize_text(message), normalize_text(d[i].q))

IsMaxScore(d, i, message) ==
    \A j \in 1..Len(d) : Ge(ScoreOf(d, i, message), ScoreOf(d, j, message))

\* the text best_faq_match was called on
Matched(l) ==
    IF l.auto THEN Content([cmd |-> l.op, q |-> l.q, a |-> l.a]) ELSE Question(l)

\* C4: the resolver returns a match exactly when the store is not empty and
\* the largest score is at least the threshold, threshold 0.0 with largest
\* score 0.0 included; otherwise no match, with the largest score (0.0 for
\* an empty store).
C4_MatchIffMaxScoreReachesThreshold ==
    last.called =>
        /\ last.mkey # None <=>
               \E i \in 1..Len(faqs) :
                   /\ IsMaxScore(faqs, i, Matched(last))
                   /\ Ge(ScoreOf(faqs, i, Matched(last)), <<Threshold(config), 100>>)
        /\ faqs = <<>> => Eq(last.score, <<0, 1>>)
        /\ \A i \in 1..Len(faqs) :
               IsMaxScore(faqs, i, Matched(last)) =>
                   Eq(last.score, ScoreOf(faqs, i, Matched(last)))

\* C5: a match returned by the resolver names the first key, in insertion
\* order, among those with the largest score, as stored (not normalized),
\* with the answer stored under it and that score.
C5_FirstKeyOfMaxScoreWins ==
    (last.called /\ last.mkey # None) =>
        \E i \in 1..Len(faqs) :
            /\ IsMaxScore(faqs, i, Matched(last))
            /\ \A j \in 1..(i - 1) : ~IsMaxScore(faqs, j, Matched(last))
            /\ last.mkey = Some(faqs[i].q)
            /\ last.manswer = Some(faqs[i].a)
            /\ Eq(last.score, ScoreOf(faqs, i, Matched(last)))

\* C5 happens: a match was returned while a later key has the same score
C5_TieResolved ==
    /\ last.called /\ last.mkey # None
    /\ Len(faqs) = 2
    /\ faqs[1].q # faqs[2].q
    /\ IsMaxScore(faqs, 1, Matched(last))
    /\ IsMaxScore(faqs, 2, Matched(last))
    /\ last.mkey = Some(faqs[1].q)

\* the commands that ask for a privileged caller
PrivilegedOps ==
    {"faq_add", "faq_remove", "set_faq_channel", "disable_faq_channel", "set_threshold"}

\* C6: a privileged command whose caller is not privileged sends the "no
\* permission" response and changes neither store nor either document, in
\* its slash and in its prefix form.
C6_UnprivilegedCallerRefused ==
    [][ (last'.op \in PrivilegedOps /\ Invoked(last') /\ ~last'.priv)
            => (/\ last'.resp = "NoPermission"
                /\ UNCHANGED <<faqs, config, faqFile, cfgFile>>) ]_vars

\* C7: an auto-reply is sent only for a message on a configured channel,
\* from a sender who is not privileged, that is no command; a command in a
\* guild channel gets no auto-reply and is dispatched to its handler.
C7_AutoReplyOnlyForPlainUnprivileged ==
    last.event = "message" =>
        /\ last.auto =>
               /\ IsAutoReplyChannel(config, last.ch)
               /\ ~last.priv
               /\ last.op = "text"
        /\ (last.src = "guild" /\ last.op # "text") => (last.dispatched /\ ~last.auto)

\* C8: set_threshold by a privileged caller with a value outside [0.0, 1.0]
\* answers with the validation error; a value outside the range never
\* changes the threshold or config.json, whoever calls; a value inside the
\* range, bounds included, from a privileged caller becomes the threshold.
C8_ThresholdValidated ==
    [][ last'.op = "set_threshold" =>
            LET v == last'.v
                inside == 0 <= v /\ v <= 100
            IN  /\ ~inside =>
                    /\ last'.priv => last'.resp = "ValidationError"
                    /\ last'.resp \in {"ValidationError", "NoPermission"}
                    /\ config' = config /\ cfgFile' = cfgFile
                /\ (inside /\ last'.priv) =>
                    /\ last'.resp = "ThresholdSet"
                    /\ Threshold(config') = v ]_vars

\* C8 happens: an out-of-range value was refused with the validation error
C8_OutOfRangeRefused ==
    /\ last.op = "set_threshold" /\ last.priv
    /\ last.v = 150
    /\ last.resp = "ValidationError"
    /\ Threshold(config) = 100

\* C9: the threshold the resolver consults is in [0.0, 1.0] in every state,
\* from the state loaded at startup on.
C9_ThresholdInUnitInterval == 0 <= Threshold(config) /\ Threshold(config) <= 100

\* the document holds the value, or is absent with the value at its default
PersistedIs(file, value, dflt) ==
    \/ file.kind = "json" /\ file.data = value
    \/ file.kind = "absent" /\ value = dflt

\* C10: with every save succeeding, faqs.json holds the FAQ store (same
\* pairs, same order) and config.json the configuration, or a document is
\* absent and its store at the default; loading them again gives the state
\* in memory.
C10_PersistedEqualsMemory ==
    /\ PersistedIs(faqFile, faqs, DefaultFaqs)
    /\ PersistedIs(cfgFile, config, DefaultConfig)
    /\ \A rn \in RenameOutcomes :
           /\ load_json(faqFile, faqBak, DefaultFaqs, rn).value = faqs
           /\ load_json(cfgFile, cfgBak, DefaultConfig, rn).value = config

\* C10 happens: a second entry was added and faqs.json holds both, in order
C10_SavedAfterAdd ==
    /\ last.op = "faq_add" /\ last.resp = "Added"
    /\ Len(faqs) = 2
    /\ faqFile.kind = "json" /\ faqFile.data = faqs
    /\ cfgFile.kind = "json" /\ cfgFile.data = config

(***************************************************************************)
(* The mutating commands with saves that may fail: open() raises and the   *)
(* document is as before, or the write raises after open() truncated it.   *)
(* The exception leaves the handler before anything is sent.               *)
(***************************************************************************)
IoOutcomes == {"ok", "open_failed", "write_failed"}

FailTexts == { <<"a">>, <<"b">> }

FailThresholds == {50, 150}

InitFail ==
    \E d \in Stores(FailTexts) :
        Loaded(Json(d), Absent(DefaultFaqs), Json(DefaultConfig), Absent(DefaultConfig),
               "failed", "failed", "none")

FailFaqAdd ==
    /\ Idle
    /\ \E priv \in BOOLEAN, q \in FailTexts, a \in Answers, io \in IoOutcomes :
           faq_add(priv, q, a, io)
    /\ Len(faqs') <= MaxFaqs

FailFaqRemove ==
    /\ Idle
    /\ \E priv \in BOOLEAN, q \in FailTexts, io \in IoOutcomes : faq_remove(priv, q, io)

FailSetFaqChannel ==
    /\ Idle
    /\ \E priv \in BOOLEAN, io \in IoOutcomes : set_faq_channel(priv, 1, io)

FailDisableFaqChannel ==
    /\ Idle
    /\ \E priv \in BOOLEAN, io \in IoOutcomes : disable_faq_channel(priv, 1, io)

FailSetThreshold ==
    /\ Idle
    /\ \E priv \in BOOLEAN, v \in FailThresholds, io \in IoOutcomes :
           set_threshold(priv, v, io)

FailOnMessage ==
    /\ Idle
    /\ \E m \in {x \in Messages(FailTexts) : x.cmd \in {"faq_add", "faq_remove"} /\ x.ch = 2},
          io \in IoOutcomes :
           on_message(m, io)
    /\ Len(faqs') <= MaxFaqs

NextFail ==
    \/ FailFaqAdd
    \/ FailFaqRemove
    \/ FailSetFaqChannel
    \/ FailDisableFaqChannel
    \/ FailSetThreshold
    \/ FailOnMessage
    \/ RestartBot
    \/ Return

SpecFail == InitFail /\ [][NextFail]_vars

\* the save of the handler in l raised
C11_SaveFailed(l) == l.resp = "Exception"

\* the mutation of the handler in l is in the stores d and cfg
C11_MutationIn(l, d, cfg) ==
    CASE l.op = "faq_add" -> Has(d, l.q) /\ Get(d, l.q) = l.a
      [] l.op = "faq_remove" -> ~Has(d, l.key[1])
      [] l.op = "set_faq_channel" -> InList(CfgChannels(cfg), l.ch)
      [] l.op = "disable_faq_channel" -> ~InList(CfgChannels(cfg), l.ch)
      [] l.op = "set_threshold" -> Threshold(cfg) = l.v
      [] OTHER -> FALSE

\* C11: when the save of a mutating command fails, the mutation stays in
\* memory, and faqs.json and config.json still hold what the last successful
\* save left in them.
C11_FailedSaveKeepsMemoryAndDocument ==
    [][ C11_SaveFailed(last') =>
            /\ C11_MutationIn(last', faqs', config')
            /\ faqFile' = faqFile
            /\ cfgFile' = cfgFile ]_vars

\* the error an invocation ended in, "none" for a success
C12_Error(l) ==
    CASE l.resp = "Exception" -> "PersistFailure"
      [] l.resp \in {"NoPermission", "CheckFailure"} -> "NoPermission"
      [] l.resp \in {"AlreadyExists", "NotFound", "ValidationError"} -> l.resp
      [] OTHER -> "none"

\* the handler sent its one text
C12_TextSent(l) == l.resp \notin {"Exception", "CheckFailure", "MissingArgument", "none"}

\* C12: a command that ends in AlreadyExists, NotFound, ValidationError,
\* PersistFailure or NoPermission has sent one text to the caller, and no
\* exception has left its handler.
C12_EveryErrorAnswered ==
    (Invoked(last) /\ C12_Error(last) # "none") => C12_TextSent(last)

(***************************************************************************)
(* Startup on documents that may be missing or unparsable, with or without *)
(* an older backup next to them, followed by commands whose saves succeed  *)
(* and by restarts.                                                        *)
(***************************************************************************)
LoadTexts == { <<"a">> }

\* the bytes of a document that does not parse, and those of an older backup
StartupJunk == {1}
OldBackupJunk == {3}

LoadFaqDocs ==
    {Absent(DefaultFaqs)} \cup {Json(d) : d \in Stores(LoadTexts)}
    \cup {Corrupt(DefaultFaqs, n) : n \in StartupJunk}

LoadCfgDocs ==
    {Absent(DefaultConfig), Json(DefaultConfig)}
    \cup {Corrupt(DefaultConfig, n) : n \in StartupJunk}

Backups(dflt) == {Absent(dflt)} \cup {Corrupt(dflt, n) : n \in OldBackupJunk}

InitLoad ==
    \E fd \in LoadFaqDocs, fb \in Backups(DefaultFaqs),
       cd \in LoadCfgDocs, cb \in Backups(DefaultConfig),
       rn1, rn2 \in RenameOutcomes :
        Loaded(fd, fb, cd, cb, rn1, rn2, "none")

LoadFaqAdd ==
    /\ Idle
    /\ \E q \in LoadTexts, a \in Answers : faq_add(TRUE, q, a, "ok")
    /\ Len(faqs') <= MaxFaqs

LoadFaqRemove ==
    /\ Idle
    /\ \E q \in LoadTexts : faq_remove(TRUE, q, "ok")

LoadSetFaqChannel ==
    /\ Idle
    /\ set_faq_channel(TRUE, 1, "ok")

NextLoad ==
    \/ LoadFaqAdd
    \/ LoadFaqRemove
    \/ LoadSetFaqChannel
    \/ RestartBot
    \/ Return

SpecLoad == InitLoad /\ [][NextLoad]_vars

\* the bytes n are on disk, in the document or in its backup
C13_OnDisk(n, file, bak) ==
    \/ file.kind = "corrupt" /\ file.junk = n
    \/ bak.kind = "corrupt" /\ bak.junk = n

\* a load of the document file: the value is the default when the document
\* is missing or unparsable, and unparsable bytes are in the backup afterwards
C13_LoadedSafely(file, value, dflt, bak) ==
    /\ file.kind # "json" => value = dflt
    /\ file.kind = "corrupt" => (bak.kind = "corrupt" /\ bak.junk = file.junk)

\* C13: a load of a missing or unparsable document gives the default and
\* does not raise; the bytes that did not parse are then under the backup
\* name, and they stay on disk through every later command, save and
\* restart, also when a backup existed before or the rename failed.
C13_UnparsableDocumentPreserved ==
    [][ /\ last'.op = "restart" =>
               /\ C13_LoadedSafely(faqFile, faqs', DefaultFaqs, faqBak')
               /\ C13_LoadedSafely(cfgFile, config', DefaultConfig, cfgBak')
        /\ \A n \in StartupJunk :
               /\ C13_OnDisk(n, faqFile, faqBak) => C13_OnDisk(n, faqFile', faqBak')
               /\ C13_OnDisk(n, cfgFile, cfgBak) => C13_OnDisk(n, cfgFile', cfgBak') ]_vars

\* a message the auto-reply is meant for: in a guild, on a configured
\* channel, from a sender who is not privileged, and no command
C14_Eligible(l, cfg) ==
    /\ l.event = "message" /\ l.src = "guild"
    /\ ~l.priv /\ l.op = "text"
    /\ IsAutoReplyChannel(cfg, l.ch)

\* C14: an eligible message on a configured channel gets one reply: the
\* stored answer of the matched key alone when the resolver returned a match
\* (whatever the key, the empty string included), else one of the fallback
\* messages; the text goes out as a reply, or to the channel when replying
\* is forbidden.
C14_OneReplyAnswerOrFallback ==
    C14_Eligible(last, config) =>
        /\ last.auto /\ last.called
        /\ last.via \in {Via(rp) : rp \in ReplyOutcomes}
        /\ IF last.mkey # None
           THEN /\ last.resp = "Answer"
                /\ last.sent = Some(Get(faqs, last.mkey[1]))
           ELSE /\ last.resp = "Fallback"
                /\ last.fallback \in FALLBACK_MESSAGES
                /\ last.sent = None

\* C15: faq_view of a question that is a key answers with the stored answer
\* alone, whatever the threshold and the caller; otherwise the resolver is
\* called and, when it returns a match, the text names the matched key, its
\* score to two decimals and its answer; when it returns no match, the text
\* is "No matching FAQ found".
C15_ViewExactThenResolver ==
    (last.op = "faq_view" /\ Invoked(last) /\ last.resp # "MissingArgument") =>
        LET q == Question(last)
        IN  IF Has(faqs, q)
            THEN /\ last.resp = "Answer"
                 /\ last.sent = Some(Get(faqs, q))
                 /\ ~last.called /\ last.key = None /\ last.shown = None
            ELSE /\ last.called
                 /\ IF last.mkey # None
                    THEN /\ last.resp = "Closest"
                         /\ last.key = last.mkey
                         /\ last.sent = Some(Get(faqs, last.mkey[1]))
                         /\ last.shown # None
                         /\ 2 * last.score[2] * last.shown[1] - 200 * last.score[1]
                                \in (0 - last.score[2])..last.score[2]
                    ELSE last.resp = "NoMatch"

(***************************************************************************)
(* The resolver on a store of one key: the score it reports is the         *)
(* similarity of the message to that key                                   *)
(***************************************************************************)
\* longest text of the similarity check
SimMaxLen == 3

SimAlphabet == {"a", "b", "c"}

SimTexts == UNION { [1..n -> SimAlphabet] : n \in 0..SimMaxLen }

\* a config.json whose threshold lets every positive score match
SimConfig ==
    [has_channels |-> TRUE, faq_channels |-> <<>>, has_threshold |-> TRUE, threshold |-> 0]

InitSim ==
    \E k \in SimTexts, v \in Answers :
        Loaded(Json(<<[q |-> k, a |-> v]>>), Absent(DefaultFaqs),
               Json(SimConfig), Absent(DefaultConfig), "failed", "failed", "none")

SimView ==
    /\ Idle
    /\ \E q \in SimTexts : faq_view(FALSE, q)

NextSim ==
    \/ SimView
    \/ Return

SpecSim == InitSim /\ [][NextSim]_vars

\* C16: the similarity score is symmetric: the score the resolver computes
\* for a message against a key, SequenceMatcher(None, message, key).ratio(),
\* equals the score of the key against the message.
C16_SimilaritySymmetric ==
    (last.called /\ Len(faqs) = 1) =>
        /\ Eq(last.score, ratio(normalize_text(Matched(last)), normalize_text(faqs[1].q)))
        /\ Eq(last.score, ratio(normalize_text(faqs[1].q), normalize_text(Matched(last))))

\* the list has no element twice; c is in the list; the list without c
C18_NoDuplicate(l) == \A i, j \in 1..Len(l) : l[i] = l[j] => i = j

C18_Configured(l, c) == \E i \in 1..Len(l) : l[i] = c

C18_Without(l, c) ==
    LET Keep(x) == x # c
    IN  SelectSeq(l, Keep)

\* C18: a channel list without duplicates stays without duplicates; a
\* successful set_faq_channel puts the channel last and a successful
\* disable_faq_channel takes it out, the other ids keeping their order;
\* set_faq_channel of a configured channel and disable_faq_channel of one
\* that is not configured change neither the configuration nor config.json;
\* no channel command changes the threshold.
C18_ChannelListKept ==
    [][ /\ C18_NoDuplicate(CfgChannels(config)) => C18_NoDuplicate(CfgChannels(config'))
        /\ last'.op \in {"set_faq_channel", "disable_faq_channel"} =>
               LET l == CfgChannels(config)
                   c == last'.ch
                   add == last'.op = "set_faq_channel"
               IN  /\ Threshold(config') = Threshold(config)
                   /\ config'.has_threshold = config.has_threshold
                   /\ (add <=> C18_Configured(l, c)) =>
                          (config' = config /\ cfgFile' = cfgFile)
                   /\ (last'.priv /\ add /\ ~C18_Configured(l, c)) =>
                          /\ last'.resp = "ChannelAdded"
                          /\ CfgChannels(config') = Append(l, c)
                   /\ (last'.priv /\ ~add /\ C18_Configured(l, c)) =>
                          /\ last'.resp = "ChannelRemoved"
                          /\ CfgChannels(config') = C18_Without(l, c) ]_vars

\* C18 happens: a channel that is configured, behind another one, was set
\* again: the list and config.json are as they were
C18_SecondSetRefused ==
    /\ last.op = "set_faq_channel" /\ last.priv
    /\ last.resp = "AlreadyConfigured"
    /\ last.ch = 1
    /\ CfgChannels(config) = <<2, 1>>
    /\ cfgFile = Json(config)

\* the handler in l only read: faq_list, faq_view, or on_message replying
\* to a message with what the resolver returned
C20_ReadOnly(l) ==
    \/ l.op \in {"faq_list", "faq_view"} /\ l.event # "none"
    \/ l.event = "message" /\ l.auto
    \/ l.called

\* C20: faq_list, faq_view, the resolver and the auto-reply of on_message
\* leave the FAQ store, the configuration, faqs.json and config.json (and
\* their backups) as they were, whatever the input and the outcome.
C20_ReadOnlyOperationsChangeNothing ==
    [][ C20_ReadOnly(last') =>
            UNCHANGED <<faqs, config, faqFile, cfgFile, faqBak, cfgBak>> ]_vars

\* C20 happens: the resolver was consulted by a view on a store of two keys
\* with both documents saved, and returned a match
C20_ViewMatched ==
    /\ last.op = "faq_view" /\ last.called /\ last.resp = "Closest"
    /\ Len(faqs) = 2
    /\ faqFile = Json(faqs)
    /\ cfgFile = Json(config)

\* what the slash command op answers on the store d with the arguments q, a,
\* and the store it leaves
C19_SlashOutcome(op, d, cfg, q, a) ==
    CASE op = "faq_add" ->
            IF Has(d, AddLookupKey(q)) THEN [resp |-> "AlreadyExists", faqs |-> d]
            ELSE [resp |-> "Added", faqs |-> Put(d, q, a)]
      [] op = "faq_remove" ->
            IF Has(d, q) THEN [resp |-> "Removed", faqs |-> Del(d, q)]
            ELSE IF Truthy(FindNormalized(d, q))
            THEN [resp |-> "Removed", faqs |-> Del(d, FindNormalized(d, q)[1])]
            ELSE [resp |-> "NotFound", faqs |-> d]
      [] OTHER ->
            IF Has(d, q) THEN [resp |-> "Answer", faqs |-> d]
            ELSE IF Truthy(best_faq_match(d, cfg, q).key)
            THEN [resp |-> "Closest", faqs |-> d]
            ELSE [resp |-> "NoMatch", faqs |-> d]

\* the arguments the handler of the command in l was called with
C19_Called(l) ==
    /\ l.op \in {"faq_add", "faq_remove", "faq_view"}
    /\ Invoked(l) /\ l.priv
    /\ l.resp # "MissingArgument"

\* the question the handler was given: one word for the prefix faq_add
C19_Question(l) == IF l.op = "faq_add" THEN l.q ELSE Question(l)

\* C19: for a privileged caller, faq_add, faq_remove and faq_view give, in
\* the prefix form as in the slash form, the outcome of the slash command on
\* the same store, configuration and arguments, and leave the same store and
\* the same faqs.json.
C19_PrefixAsSlash ==
    [][ C19_Called(last') =>
            \E o \in {C19_SlashOutcome(last'.op, faqs, config, C19_Question(last'), last'.a)} :
                /\ last'.resp = o.resp
                /\ faqs' = o.faqs
                /\ faqFile' = IF o.faqs = faqs THEN faqFile ELSE Json(o.faqs) ]_vars

(***************************************************************************)
(* Several handlers in flight on the one event loop.  A handler is a       *)
(* coroutine: it runs without interruption up to an await, where the loop  *)
(* may run another handler.  A handler in flight is a record t with its    *)
(* command, caller and arguments, its position pc ("queued", "checked":    *)
(* suspended after its checks, "sending": suspended in send_message,      *)
(* "done"), what it answers (resp) and the key its remove deletes (target).*)
(* The stores and documents a handler works on are the record w.           *)
(***************************************************************************)
\* number of handlers in flight
InFlight == 2

\* a handler with an await between its checks and its write as well
SuspendsAtCheckToo(op) == {"check", "send"}

\* the awaits of a handler: the one send_message, after save_json
SuspendsAt(op) == {"send"}

World == [faqs |-> faqs, config |-> config, faqFile |-> faqFile, cfgFile |-> cfgFile]

\* the checks of a handler on w: "go", or the refusal it sends
ConcCheck(t, w) ==
    IF ~t.priv THEN "NoPermission"
    ELSE CASE t.op = "faq_add" ->
                 IF Has(w.faqs, AddLookupKey(t.q)) THEN "AlreadyExists" ELSE "go"
           [] t.op = "faq_remove" ->
                 IF Has(w.faqs, t.q) \/ Truthy(FindNormalized(w.faqs, t.q))
                 THEN "go" ELSE "NotFound"
           [] OTHER ->
                 IF InList(CfgChannels(w.config), t.ch) THEN "AlreadyConfigured" ELSE "go"

\* the key faq_remove found on w
ConcTarget(t, w) ==
    IF t.op # "faq_remove" THEN None
    ELSE IF Has(w.faqs, t.q) THEN Some(t.q) ELSE FindNormalized(w.faqs, t.q)

\* the write and the save of a handler whose checks passed; del of a key
\* that is gone raises KeyError and nothing is written
ConcWrite(t, w) ==
    CASE t.op = "faq_add" ->
            LET d == Put(w.faqs, t.q, t.a)
            IN  [w EXCEPT !.faqs = d, !.faqFile = save_json(w.faqFile, d, DefaultFaqs, "ok")]
      [] t.op = "faq_remove" ->
            IF ~Has(w.faqs, t.target[1]) THEN w
            ELSE LET d == Del(w.faqs, t.target[1])
                 IN  [w EXCEPT !.faqs = d,
                               !.faqFile = save_json(w.faqFile, d, DefaultFaqs, "ok")]
      [] OTHER ->
            LET c == [w.config EXCEPT !.has_channels = TRUE,
                                      !.faq_channels = Append(CfgChannels(w.config), t.ch)]
            IN  [w EXCEPT !.config = c,
                          !.cfgFile = save_json(w.cfgFile, c, DefaultConfig, "ok")]

\* what a handler sends after its write
ConcAnswer(t, w) ==
    CASE t.op = "faq_add" -> "Added"
      [] t.op = "faq_remove" -> IF Has(w.faqs, t.target[1]) THEN "Removed" ELSE "Exception"
      [] OTHER -> "ChannelAdded"

\* the stores and documents become w
Become(w) ==
    /\ faqs' = w.faqs
    /\ config' = w.config
    /\ faqFile' = w.faqFile
    /\ cfgFile' = w.cfgFile
    /\ UNCHANGED <<faqBak, cfgBak>>

SetTask(i, t) == last' = [last EXCEPT !.tasks[i] = t]

\* the handler runs from where it is up to its next await
ConcRun(i) ==
    \E t \in {last.tasks[i]} :
        /\ t.pc \in {"queued", "checked"}
        /\ IF t.pc = "checked"
           THEN /\ Become(ConcWrite(t, World))
                /\ SetTask(i, [t EXCEPT !.pc = "sending", !.resp = ConcAnswer(t, World)])
           ELSE \E c \in {ConcCheck(t, World)},
                   found \in {[t EXCEPT !.target = ConcTarget(t, World)]} :
                    IF c # "go"
                    THEN /\ SetTask(i, [t EXCEPT !.pc = "sending", !.resp = c])
                         /\ Become(World)
                    ELSE IF "check" \in SuspendsAt(t.op)
                    THEN /\ SetTask(i, [found EXCEPT !.pc = "checked"])
                         /\ Become(World)
                    ELSE /\ Become(ConcWrite(found, World))
                         /\ SetTask(i, [found EXCEPT !.pc = "sending",
                                                     !.resp = ConcAnswer(found, World)])

\* the send of the handler completes and the handler returns
ConcSent(i) ==
    /\ last.tasks[i].pc = "sending"
    /\ SetTask(i, [last.tasks[i] EXCEPT !.pc = "done"])
    /\ Become(World)

ConcTexts == { <<"a">>, <<"A">> }

\* the commands delivered
ConcCalls ==
    { [op |-> "faq_add", priv |-> TRUE, q |-> q, a |-> a, ch |-> 0,
       pc |-> "queued", resp |-> "none", target |-> None] : q \in ConcTexts, a \in Answers }
    \cup { [op |-> "faq_remove", priv |-> p, q |-> q, a |-> <<>>, ch |-> 0,
            pc |-> "queued", resp |-> "none", target |-> None] :
                q \in ConcTexts, p \in BOOLEAN }
    \cup { [op |-> "set_faq_channel", priv |-> TRUE, q |-> <<>>, a |-> <<>>, ch |-> c,
            pc |-> "queued", resp |-> "none", target |-> None] : c \in Channels }

InitConc ==
    \E d \in Stores(ConcTexts), c \in LoadableConfigs, ts \in [1..InFlight -> ConcCalls] :
        /\ faqs = d
        /\ faqFile = Json(d)
        /\ faqBak = Absent(DefaultFaqs)
        /\ config = c
        /\ cfgFile = Json(c)
        /\ cfgBak = Absent(DefaultConfig)
        /\ last = [op |-> "in_flight", tasks |-> ts,
                   start |-> [faqs |-> d, config |-> c,
                              faqFile |-> Json(d), cfgFile |-> Json(c)]]

ConcRunHandler == \E i \in 1..InFlight : ConcRun(i)

ConcSendDone == \E i \in 1..InFlight : ConcSent(i)

NextConc ==
    \/ ConcRunHandler
    \/ ConcSendDone

SpecConc == InitConc /\ [][NextConc]_vars

\* a handler run on w from its start to its send, with nothing in between:
\* the stores it leaves and what it answers
C17_Run(t, w) ==
    IF ConcCheck(t, w) = "go"
    THEN ConcWrite([t EXCEPT !.target = ConcTarget(t, w)], w)
    ELSE w

C17_Resp(t, w) ==
    IF ConcCheck(t, w) = "go"
    THEN ConcAnswer([t EXCEPT !.target = ConcTarget(t, w)], w)
    ELSE ConcCheck(t, w)

\* the stores after the first k handlers of an order ran one after the other
RECURSIVE C17_After(_, _, _, _)
C17_After(ts, order, k, w0) ==
    IF k = 0 THEN w0 ELSE C17_Run(ts[order[k]], C17_After(ts, order, k - 1, w0))

C17_Orders ==
    {f \in [1..InFlight -> 1..InFlight] : \A i, j \in 1..InFlight : f[i] = f[j] => i = j}

C17_AllDone == \A i \in 1..InFlight : last.tasks[i].pc = "done"

====
